---- MODULE Spec2Model ----
(***************************************************************************)
(* Model of consistency-checker.cpp: the exhaustive search for all         *)
(* outcomes of a small multi-threaded program under IBM370 (store atomic)  *)
(* and x86-TSO (write atomic).  The recursive procedures                   *)
(* get_possible_executions_ibm / _tso are modelled with an explicit call   *)
(* stack: one frame per activation, holding the loop variables t and i,    *)
(* the local old_val and the place the activation resumes at.              *)
(* C arrays are 0-based, the sequences here are 1-based.                   *)
(***************************************************************************)
EXTENDS Integers, Sequences, FiniteSets, TLC

VARIABLES program, memvars, po, executed, memvalues, loadvalues,
          solutions_ibm, solutions_tso, flagged, stack, pc, run, first_run

vars == <<program, memvars, po, executed, memvalues, loadvalues,
          solutions_ibm, solutions_tso, flagged, stack, pc, run, first_run>>

(***************************************************************************)
(* Bounds of the programs that are analysed.                               *)
(***************************************************************************)
MaxThreads == 2

MaxTotal == 2

Locs == {"x", "y"}

Vals == {1, 5}

St(m, v) == [store |-> TRUE, mem |-> m, value |-> v]

Ld(m) == [store |-> FALSE, mem |-> m, value |-> 0]

InstrKinds == {St(m, v) : m \in Locs, v \in Vals} \cup {Ld(m) : m \in Locs}

\* all programs of exactly k threads with at most b instructions in total
RECURSIVE Progs(_, _)
Progs(k, b) ==
  IF k = 0 THEN {<<>>}
  ELSE UNION { { Append(p, th) : p \in Progs(k - 1, b - n),
                                 th \in [1..n -> InstrKinds] }
               : n \in 0..b }

BoundedPrograms == UNION { Progs(k, MaxTotal) : k \in 0..MaxThreads }

\* thread 1 = [st x 1, ld y], thread 2 = [st y 1, ld x]
ProgramSB == << <<St("x", 1), Ld("y")>>, <<St("y", 1), Ld("x")>> >>

\* single thread [st x 5, ld x]
ProgramStLd == << <<St("x", 5), Ld("x")>> >>

\* single thread [st x 1, st x 5, ld x]
ProgramStStLd == << <<St("x", 1), St("x", 5), Ld("x")>> >>

\* thread 1 = [st x 1, ld x], thread 2 = [st x 5]
ProgramFwd == << <<St("x", 1), Ld("x")>>, <<St("x", 5)>> >>

\* thread 1 = [st x 1, st y 1], thread 2 = [ld y, ld x]
ProgramMP == << <<St("x", 1), St("y", 1)>>, <<Ld("y"), Ld("x")>> >>

LitmusPrograms == {ProgramSB, ProgramStLd, ProgramStStLd, ProgramFwd, ProgramMP}

Programs == BoundedPrograms \cup LitmusPrograms

(***************************************************************************)
(* Program representation (globals program, num_threads, num_instrs).      *)
(***************************************************************************)
num_threads == Len(program)

num_instrs(t) == Len(program[t])

Threads == 1..num_threads

Instrs(t) == 1..num_instrs(t)

\* the instructions in the order the loops "for t / for i" visit them
RECURSIVE InstrListFrom(_, _)
InstrListFrom(t, i) ==
  IF t > num_threads THEN <<>>
  ELSE IF i > num_instrs(t) THEN InstrListFrom(t + 1, 1)
  ELSE << <<t, i>> >> \o InstrListFrom(t, i + 1)

InstrList == InstrListFrom(1, 1)

AllInstrs == UNION { { <<t, i>> : i \in Instrs(t) } : t \in Threads }

\* insert_memvar, called by main for every parsed instruction in input order
insert_memvar(mv, var) ==
  IF \E pos \in 1..Len(mv) : mv[pos] = var THEN mv ELSE Append(mv, var)

RECURSIVE MemVarsFrom(_, _)
MemVarsFrom(mv, list) ==
  IF list = <<>> THEN mv
  ELSE MemVarsFrom(insert_memvar(mv, program[Head(list)[1]][Head(list)[2]].mem),
                   Tail(list))

\* the table main builds while it parses the input
ParsedMemVars == MemVarsFrom(<<>>, InstrList)

num_memvars == Len(memvars)

MemPos(var) == CHOOSE pos \in 1..num_memvars : memvars[pos] = var

get_memvar(mem, var) == mem[MemPos(var)]

\* update_memvar: the new memory (the previous value is get_memvar)
update_memvar(mem, var, value) == [mem EXCEPT ![MemPos(var)] = value]

\* update_load: the new table (the previous value is lv[thread][instr])
update_load(lv, thread, instr, value) == [lv EXCEPT ![thread][instr] = value]

(***************************************************************************)
(* Program order (dependency) matrix po[t][d][i]: d waits for i.           *)
(***************************************************************************)
IbmEdge_ProgramOrder(t, d, i) == d > i

IbmEdge_NoSameLoc(t, d, i) ==
  /\ d > i
  /\ IF program[t][i].store THEN program[t][d].store ELSE TRUE

IbmEdge_NoLoadBarrier(t, d, i) ==
  /\ d > i
  /\ IF program[t][i].store
       THEN \/ program[t][d].store
            \/ program[t][i].mem = program[t][d].mem
       ELSE program[t][d].store

\* the edge add_po_ibm puts at po[t][d][i]
IbmEdge(t, d, i) ==
  /\ d > i
  /\ IF program[t][i].store
       THEN \/ program[t][d].store
            \/ program[t][i].mem = program[t][d].mem
       ELSE TRUE

TsoEdge_SameLoc(t, d, i) ==
  /\ d > i
  /\ IF program[t][i].store
       THEN \/ program[t][d].store
            \/ program[t][i].mem = program[t][d].mem
       ELSE TRUE

\* the edge add_po_tso puts at po[t][d][i]
TsoEdge(t, d, i) ==
  /\ d > i
  /\ IF program[t][i].store
       THEN program[t][d].store
       ELSE TRUE

add_po_ibm(p, t, i) ==
  [p EXCEPT ![t] = [d \in Instrs(t) |->
                      [j \in Instrs(t) |->
                         IF j = i THEN IbmEdge(t, d, i) ELSE p[t][d][j]]]]

add_po_tso(p, t, i) ==
  [p EXCEPT ![t] = [d \in Instrs(t) |->
                      [j \in Instrs(t) |->
                         IF j = i THEN TsoEdge(t, d, i) ELSE p[t][d][j]]]]

remove_po_Noop(p, t, i) == p

remove_po_SkipNext(p, t, i) ==
  [p EXCEPT ![t] = [d \in Instrs(t) |->
                      [j \in Instrs(t) |->
                         IF j = i /\ d > i + 1 THEN FALSE ELSE p[t][d][j]]]]

\* remove_po: no later instruction of the thread waits for i any more
remove_po(p, t, i) ==
  [p EXCEPT ![t] = [d \in Instrs(t) |->
                      [j \in Instrs(t) |->
                         IF j = i /\ d > i THEN FALSE ELSE p[t][d][j]]]]

RECURSIVE BuildIbmFrom(_, _)
BuildIbmFrom(p, list) ==
  IF list = <<>> THEN p
  ELSE BuildIbmFrom(add_po_ibm(p, Head(list)[1], Head(list)[2]), Tail(list))

build_po_graph_ibm(p) == BuildIbmFrom(p, InstrList)

RECURSIVE BuildTsoFrom(_, _)
BuildTsoFrom(p, list) ==
  IF list = <<>> THEN p
  ELSE BuildTsoFrom(add_po_tso(p, Head(list)[1], Head(list)[2]), Tail(list))

build_po_graph_tso(p) == BuildTsoFrom(p, InstrList)

has_po_dependencies(p, thread, instr) ==
  \E d \in Instrs(thread) : p[thread][instr][d]

(***************************************************************************)
(* Executed flags.                                                         *)
(***************************************************************************)
reset_executed == [t \in Threads |-> [i \in Instrs(t) |-> FALSE]]

all_executed(ex) == \A t \in Threads : \A i \in Instrs(t) : ex[t][i]

(***************************************************************************)
(* Outcome strings: print_mem followed by print_loads.  A string is        *)
(* modelled by the sequence of its "name==value; " items.                  *)
(***************************************************************************)
print_mem(mem) == [pos \in 1..num_memvars |-> <<"[]", memvars[pos], mem[pos]>>]

RECURSIVE PrintLoadsFrom(_, _)
PrintLoadsFrom(lv, list) ==
  IF list = <<>> THEN <<>>
  ELSE LET t == Head(list)[1]
           i == Head(list)[2]
       IN  (IF program[t][i].store THEN <<>>
            ELSE << <<"ld", program[t][i].mem, lv[t][i]>> >>)
           \o PrintLoadsFrom(lv, Tail(list))

print_loads(lv) == PrintLoadsFrom(lv, InstrList)

OutcomeString(mem, lv) == print_mem(mem) \o print_loads(lv)

(***************************************************************************)
(* Store forwarding helpers of the TSO search.                             *)
(***************************************************************************)
\* the earlier stores of the thread to the location of the load instr
PrevStores(thread, instr) ==
  { i \in 1..instr - 1 :
      program[thread][i].store
      /\ program[thread][i].mem = program[thread][instr].mem }

is_prevstore(thread, instr) == PrevStores(thread, instr) # {}

is_prevstore_executed(ex, thread, instr) ==
  { i \in PrevStores(thread, instr) : ex[thread][i] } # {}

\* the loop runs from instr-1 downwards: the nearest earlier store wins
get_prevstore(thread, instr) ==
  LET S == PrevStores(thread, instr)
      n == CHOOSE i \in S : \A j \in S : j <= i
  IN  program[thread][n].value

(***************************************************************************)
(* The search.  A frame is one activation of get_possible_executions_*:    *)
(* t, i are its loop variables, old_val its local, lbl where it resumes:   *)
(* "loop" at the loop test, "second" after the first "check end or         *)
(* recursive" of the TSO search, "reverse" at the "reverse" block.         *)
(***************************************************************************)
Frame(t, i, old_val, lbl) == [t |-> t, i |-> i, old_val |-> old_val, lbl |-> lbl]

Top == stack[Len(stack)]

Pop(s) == SubSeq(s, 1, Len(s) - 1)

LexLeq(a, b) == a[1] < b[1] \/ (a[1] = b[1] /\ a[2] <= b[2])

\* the instructions the loops still visit from (t, i) on that pass the test
\* "!executed[t][i] && !has_po_dependencies(t, i)"
Candidates(t, i) ==
  { c \in AllInstrs : /\ LexLeq(<<t, i>>, c)
                      /\ ~executed[c[1]][c[2]]
                      /\ ~has_po_dependencies(po, c[1], c[2]) }

FirstOf(S) == CHOOSE c \in S : \A d \in S : LexLeq(c, d)

Init ==
  /\ program \in Programs
  /\ memvars = ParsedMemVars
  /\ po = [t \in Threads |-> [d \in Instrs(t) |-> [i \in Instrs(t) |-> FALSE]]]
  /\ executed = [t \in Threads |-> [i \in Instrs(t) |-> FALSE]]
  /\ memvalues = [pos \in 1..num_memvars |-> 0]
  /\ loadvalues = [t \in Threads |-> [i \in Instrs(t) |-> 0]]
  /\ solutions_ibm = {}
  /\ solutions_tso = {}
  /\ flagged = {}
  /\ stack = <<>>
  /\ pc = "start"
  /\ run = 1
  /\ first_run = <<{}, {}>>

\* main: reset_executed, clear, build_po_graph_ibm, call the IBM search
MainIbm ==
  /\ pc = "start"
  /\ executed' = reset_executed
  /\ solutions_ibm' = {}
  /\ po' = build_po_graph_ibm(po)
  /\ stack' = << Frame(1, 1, 0, "loop") >>
  /\ pc' = "ibm"
  /\ UNCHANGED <<program, memvars, memvalues, loadvalues, solutions_tso, flagged, run, first_run>>

\* get_possible_executions_ibm: the loops reach the next eligible
\* instruction, execute it, remove its edges, then record or recurse
IbmExecute ==
  /\ pc = "ibm" /\ stack # <<>> /\ Top.lbl = "loop"
  /\ Candidates(Top.t, Top.i) # {}
  /\ LET c == FirstOf(Candidates(Top.t, Top.i))
         t == c[1]
         i == c[2]
         ins == program[t][i]
         ex1 == [executed EXCEPT ![t][i] = TRUE]
         old_val == IF ins.store THEN get_memvar(memvalues, ins.mem)
                    ELSE loadvalues[t][i]
         mem1 == IF ins.store THEN update_memvar(memvalues, ins.mem, ins.value)
                 ELSE memvalues
         lv1 == IF ins.store THEN loadvalues
                ELSE update_load(loadvalues, t, i, get_memvar(memvalues, ins.mem))
         here == Frame(t, i, old_val, "reverse")
     IN  /\ executed' = ex1
         /\ memvalues' = mem1
         /\ loadvalues' = lv1
         /\ po' = remove_po(po, t, i)
         /\ IF all_executed(ex1)
              THEN /\ solutions_ibm' = solutions_ibm \cup {OutcomeString(mem1, lv1)}
                   /\ stack' = Append(Pop(stack), here)
              ELSE /\ solutions_ibm' = solutions_ibm
                   /\ stack' = Append(Append(Pop(stack), here), Frame(1, 1, 0, "loop"))
  /\ UNCHANGED <<program, memvars, solutions_tso, flagged, pc, run, first_run>>

\* the "reverse" block's undo of a store: update_memvar(mem, old_val)
ReverseMem_Skip(mem, ins, old_val) == mem

ReverseMem(mem, ins, old_val) ==
  IF ins.store THEN update_memvar(mem, ins.mem, old_val) ELSE mem

ReverseLoad_Skip(lv, ins, t, i) == lv

\* the "reverse" block's undo of a load: update_load(t, i, 0)
ReverseLoad(lv, ins, t, i) ==
  IF ins.store THEN lv ELSE update_load(lv, t, i, 0)

\* the "i++" of the inner loop
NextIndex_Stuck(i) == i

NextIndex(i) == i + 1

\* the "reverse" block, then the loop goes on with i+1
IbmReverse ==
  /\ pc = "ibm" /\ stack # <<>> /\ Top.lbl = "reverse"
  /\ LET t == Top.t
         i == Top.i
         ins == program[t][i]
     IN  /\ po' = add_po_ibm(po, t, i)
         /\ memvalues' = ReverseMem(memvalues, ins, Top.old_val)
         /\ loadvalues' = ReverseLoad(loadvalues, ins, t, i)
         /\ executed' = [executed EXCEPT ![t][i] = FALSE]
         /\ stack' = Append(Pop(stack), Frame(t, NextIndex(i), 0, "loop"))
  /\ UNCHANGED <<program, memvars, solutions_ibm, solutions_tso, flagged, pc, run, first_run>>

\* the loops end: the activation returns to its caller
IbmReturn ==
  /\ pc = "ibm" /\ stack # <<>> /\ Top.lbl = "loop"
  /\ Candidates(Top.t, Top.i) = {}
  /\ stack' = Pop(stack)
  /\ UNCHANGED <<program, memvars, po, executed, memvalues, loadvalues,
                 solutions_ibm, solutions_tso, flagged, pc, run, first_run>>

\* main: reset_executed, clear, build_po_graph_tso, call the TSO search
MainTso ==
  /\ pc = "ibm" /\ stack = <<>>
  /\ executed' = reset_executed
  /\ solutions_tso' = {}
  /\ po' = build_po_graph_tso(po)
  /\ stack' = << Frame(1, 1, 0, "loop") >>
  /\ pc' = "tso"
  /\ UNCHANGED <<program, memvars, memvalues, loadvalues, solutions_ibm, flagged, run, first_run>>

Forwards_AnyPrevStore(ex, t, i) ==
  /\ ~program[t][i].store
  /\ is_prevstore(t, i)

\* the test "is_prevstore(t, i) && !is_prevstore_executed(t, i)" of a load
Forwards(ex, t, i) ==
  /\ ~program[t][i].store
  /\ is_prevstore(t, i)
  /\ ~is_prevstore_executed(ex, t, i)

TsoLoadValue_Memory(ex, mem, t, i) == get_memvar(mem, program[t][i].mem)

\* the value update_load stores for a load executed by the TSO search
TsoLoadValue(ex, mem, t, i) ==
  IF Forwards(ex, t, i) THEN get_prevstore(t, i)
  ELSE get_memvar(mem, program[t][i].mem)

\* get_possible_executions_tso up to the first "check end or recursive"
TsoExecute ==
  /\ pc = "tso" /\ stack # <<>> /\ Top.lbl = "loop"
  /\ Candidates(Top.t, Top.i) # {}
  /\ LET c == FirstOf(Candidates(Top.t, Top.i))
         t == c[1]
         i == c[2]
         ins == program[t][i]
         ex1 == [executed EXCEPT ![t][i] = TRUE]
         old_val == get_memvar(memvalues, ins.mem)
         mem1 == IF ins.store THEN update_memvar(memvalues, ins.mem, ins.value)
                 ELSE memvalues
         lv1 == IF ins.store THEN loadvalues
                ELSE update_load(loadvalues, t, i, TsoLoadValue(ex1, memvalues, t, i))
         here == Frame(t, i, old_val, "second")
     IN  /\ executed' = ex1
         /\ po' = remove_po(po, t, i)
         /\ memvalues' = mem1
         /\ loadvalues' = lv1
         /\ IF all_executed(ex1)
              THEN /\ solutions_tso' = solutions_tso \cup {OutcomeString(mem1, lv1)}
                   /\ stack' = Append(Pop(stack), here)
              ELSE /\ solutions_tso' = solutions_tso
                   /\ stack' = Append(Append(Pop(stack), here), Frame(1, 1, 0, "loop"))
  /\ UNCHANGED <<program, memvars, solutions_ibm, flagged, pc, run, first_run>>

SecondValue_Memory(mem, t, i) == get_memvar(mem, program[t][i].mem)

\* the value the second update_load stores: get_prevstore(t, i) once more
SecondValue(mem, t, i) == get_prevstore(t, i)

\* the second "check end or recursive", taken by a forwarding load
TsoSecond ==
  /\ pc = "tso" /\ stack # <<>> /\ Top.lbl = "second"
  /\ Forwards(executed, Top.t, Top.i)
  /\ LET t == Top.t
         i == Top.i
         lv1 == update_load(loadvalues, t, i, SecondValue(memvalues, t, i))
         here == Frame(t, i, Top.old_val, "reverse")
     IN  /\ loadvalues' = lv1
         /\ IF all_executed(executed)
              THEN /\ solutions_tso' = solutions_tso \cup {OutcomeString(memvalues, lv1)}
                   /\ stack' = Append(Pop(stack), here)
              ELSE /\ solutions_tso' = solutions_tso
                   /\ stack' = Append(Append(Pop(stack), here), Frame(1, 1, 0, "loop"))
  /\ UNCHANGED <<program, memvars, po, executed, memvalues, solutions_ibm, flagged, pc, run, first_run>>

\* the "reverse" block, reached when the second check is skipped or done
TsoReverse ==
  /\ pc = "tso" /\ stack # <<>>
  /\ \/ Top.lbl = "reverse"
     \/ Top.lbl = "second" /\ ~Forwards(executed, Top.t, Top.i)
  /\ LET t == Top.t
         i == Top.i
         ins == program[t][i]
     IN  /\ memvalues' = ReverseMem(memvalues, ins, Top.old_val)
         /\ loadvalues' = ReverseLoad(loadvalues, ins, t, i)
         /\ po' = add_po_tso(po, t, i)
         /\ executed' = [executed EXCEPT ![t][i] = FALSE]
         /\ stack' = Append(Pop(stack), Frame(t, NextIndex(i), 0, "loop"))
  /\ UNCHANGED <<program, memvars, solutions_ibm, solutions_tso, flagged, pc, run, first_run>>

TsoReturn ==
  /\ pc = "tso" /\ stack # <<>> /\ Top.lbl = "loop"
  /\ Candidates(Top.t, Top.i) = {}
  /\ stack' = Pop(stack)
  /\ UNCHANGED <<program, memvars, po, executed, memvalues, loadvalues,
                 solutions_ibm, solutions_tso, flagged, pc, run, first_run>>

\* main: print the TSO solutions, a "*" after those the IBM set lacks
MainReport ==
  /\ pc = "tso" /\ stack = <<>>
  /\ flagged' = { s \in solutions_tso : ~(\E s2 \in solutions_ibm : s = s2) }
  /\ pc' = "done"
  /\ UNCHANGED <<program, memvars, po, executed, memvalues, loadvalues,
                 solutions_ibm, solutions_tso, stack, run, first_run>>

Next ==
  \/ MainIbm
  \/ IbmExecute
  \/ IbmReverse
  \/ IbmReturn
  \/ MainTso
  \/ TsoExecute
  \/ TsoSecond
  \/ TsoReverse
  \/ TsoReturn
  \/ MainReport

Spec == Init /\ [][Next]_vars

\* a driver that runs the body of main a second time on the same program
MainRerun ==
  /\ pc = "done" /\ run = 1
  /\ run' = 2
  /\ first_run' = <<solutions_ibm, solutions_tso>>
  /\ pc' = "start"
  /\ UNCHANGED <<program, memvars, po, executed, memvalues, loadvalues,
                 solutions_ibm, solutions_tso, flagged, stack>>

NextTwice ==
  \/ Next
  \/ MainRerun

SpecTwice == Init /\ [][NextTwice]_vars

(***************************************************************************)
(* Reference semantics used by the properties: total orders of all         *)
(* instructions and the outcome each of them produces.                     *)
(***************************************************************************)
NumAll == Cardinality(AllInstrs)

Orders == { o \in [1..NumAll -> AllInstrs] :
              \A a, b \in 1..NumAll : a # b => o[a] # o[b] }

PosIn(o, c) == CHOOSE k \in 1..NumAll : o[k] = c

InstrAt(c) == program[c[1]][c[2]]

ZeroMem == [pos \in 1..num_memvars |-> 0]

ZeroLoads == [t \in Threads |-> [i \in Instrs(t) |-> 0]]

\* one instruction at a time from position k on: a store writes memory,
\* a load reads the current memory
RECURSIVE RunSeq(_, _, _, _)
RunSeq(o, k, mem, lv) ==
  IF k > Len(o) THEN OutcomeString(mem, lv)
  ELSE LET c == o[k]
           ins == InstrAt(c)
       IN  IF ins.store
             THEN RunSeq(o, k + 1, update_memvar(mem, ins.mem, ins.value), lv)
             ELSE RunSeq(o, k + 1, mem,
                         update_load(lv, c[1], c[2], get_memvar(mem, ins.mem)))

SeqOutcome(o) == RunSeq(o, 1, ZeroMem, ZeroLoads)

\* o keeps every thread's instructions in program order
KeepsProgramOrder(o) ==
  \A a, b \in AllInstrs :
     (a[1] = b[1] /\ a[2] < b[2]) => PosIn(o, a) < PosIn(o, b)

\* o keeps program order except that a load may overtake earlier stores of
\* its thread to other locations
KeepsStoreAtomicOrder(o) ==
  \A a, b \in AllInstrs :
     ( /\ a[1] = b[1] /\ a[2] < b[2]
       /\ \/ ~InstrAt(a).store
          \/ InstrAt(b).store
          \/ InstrAt(a).mem = InstrAt(b).mem )
     => PosIn(o, a) < PosIn(o, b)

Done == pc = "done"

(***************************************************************************)
(* C1                                                                      *)
(***************************************************************************)
BothZeroSB == << <<"[]", "x", 1>>, <<"[]", "y", 1>>,
                 <<"ld", "y", 0>>, <<"ld", "x", 0>> >>

\* C1 (as stated): for thread 1 = [st x 1, ld y], thread 2 = [st y 1, ld x]
\* the StoreAtomic search never records the outcome in which both loads
\* observe 0, the WriteAtomicRelaxed search records it, and it is flagged
\* as relaxed-only.
C1_BothZeroOnlyRelaxed ==
  program = ProgramSB =>
     /\ BothZeroSB \notin solutions_ibm
     /\ Done => (BothZeroSB \in solutions_tso /\ BothZeroSB \in flagged)

\* C1 (amended): for that program the StoreAtomic search does record the
\* outcome in which both loads observe 0, so does the WriteAtomicRelaxed
\* search, and the outcome is not flagged as relaxed-only; no outcome is.
C1_BothZeroInBothModels ==
  (program = ProgramSB /\ Done) =>
     /\ BothZeroSB \in solutions_ibm
     /\ BothZeroSB \in solutions_tso
     /\ BothZeroSB \notin flagged
     /\ flagged = {}

C1_Witness == program = ProgramSB /\ Done /\ Cardinality(solutions_tso) = 4

(***************************************************************************)
(* C2                                                                      *)
(***************************************************************************)
\* C2: for every program with exactly one thread both outcome sets are
\* equal and hold exactly one outcome, that of executing the thread's
\* instructions one at a time in program order.
C2_SingleThreadSequential ==
  (Done /\ num_threads = 1) =>
     /\ solutions_ibm = solutions_tso
     /\ solutions_ibm = {SeqOutcome(InstrList)}

(***************************************************************************)
(* C3                                                                      *)
(***************************************************************************)
\* C3: relaxation monotonicity: every outcome the StoreAtomic search
\* recorded is also recorded by the WriteAtomicRelaxed search.
C3_RelaxationMonotonic == Done => solutions_ibm \subseteq solutions_tso

C3_Witness == Done /\ solutions_ibm # {} /\ solutions_tso # solutions_ibm

(***************************************************************************)
(* C4                                                                      *)
(***************************************************************************)
\* C4 (as stated): every StoreAtomic outcome is the result of executing,
\* one instruction at a time, some total order of all instructions that
\* keeps each thread's instructions in program order.
C4_ProgramOrderWitness ==
  Done => \A s \in solutions_ibm :
            \E o \in Orders : KeepsProgramOrder(o) /\ SeqOutcome(o) = s

\* C4 (amended): every StoreAtomic outcome is the result of executing, one
\* instruction at a time, some total order of all instructions that keeps
\* each thread's instructions in program order except that a load may be
\* placed before earlier stores of its thread to other locations.
C4_StoreAtomicOrderWitness ==
  Done => \A s \in solutions_ibm :
            \E o \in Orders : KeepsStoreAtomicOrder(o) /\ SeqOutcome(o) = s

C4_Witness ==
  /\ Done
  /\ num_threads = 2
  /\ \E s \in solutions_ibm :
        \A o \in Orders : KeepsProgramOrder(o) => SeqOutcome(o) # s

(***************************************************************************)
(* C5, C6: orders that respect a model's dependency relation.              *)
(***************************************************************************)
Before(o, k) == { o[j] : j \in 1..k - 1 }

\* every instruction of o has its predecessors under Edge executed before it
RespectsDeps(o, Edge(_, _, _)) ==
  \A k \in 1..NumAll :
     \A i \in Instrs(o[k][1]) :
        Edge(o[k][1], o[k][2], i) => <<o[k][1], i>> \in Before(o, k)

\* the value of the last store to loc among the first k-1 instructions of
\* o, 0 if there is none
LastStored(o, k, loc) ==
  LET S == { j \in 1..k - 1 : InstrAt(o[j]).store /\ InstrAt(o[j]).mem = loc }
  IN  IF S = {} THEN 0
      ELSE InstrAt(o[CHOOSE j \in S : \A j2 \in S : j2 <= j]).value

FinalMem(o) == [pos \in 1..num_memvars |-> LastStored(o, NumAll + 1, memvars[pos])]

\* StoreAtomic load rule: the current value of the location
LoadsStoreAtomic(o) ==
  [t \in Threads |-> [i \in Instrs(t) |->
     IF program[t][i].store THEN 0
     ELSE LastStored(o, PosIn(o, <<t, i>>), program[t][i].mem)]]

\* WriteAtomicRelaxed load rule: the value of the nearest earlier store of
\* the thread to the location while no earlier store of the thread to the
\* location has executed, the current value of the location otherwise
LoadsRelaxed(o) ==
  [t \in Threads |-> [i \in Instrs(t) |->
     IF program[t][i].store THEN 0
     ELSE LET E == { j \in 1..i - 1 : program[t][j].store
                                      /\ program[t][j].mem = program[t][i].mem }
              k == PosIn(o, <<t, i>>)
          IN  IF E # {} /\ \A j \in E : <<t, j>> \notin Before(o, k)
                THEN program[t][CHOOSE j \in E : \A j2 \in E : j2 <= j].value
                ELSE LastStored(o, k, program[t][i].mem)]]

StoreAtomicOutcomes ==
  { OutcomeString(FinalMem(o), LoadsStoreAtomic(o)) :
      o \in { o2 \in Orders : RespectsDeps(o2, IbmEdge) } }

RelaxedOutcomes ==
  { OutcomeString(FinalMem(o), LoadsRelaxed(o)) :
      o \in { o2 \in Orders : RespectsDeps(o2, TsoEdge) } }

C6_EveryLegalOrderRecorded ==
  Done => /\ StoreAtomicOutcomes \subseteq solutions_ibm
          /\ RelaxedOutcomes \subseteq solutions_tso

(***************************************************************************)
(* C7                                                                      *)
(***************************************************************************)
FreshIbm == [t \in Threads |-> [d \in Instrs(t) |-> [i \in Instrs(t) |-> IbmEdge(t, d, i)]]]

FreshTso == [t \in Threads |-> [d \in Instrs(t) |-> [i \in Instrs(t) |-> TsoEdge(t, d, i)]]]

Returned == stack = <<>> /\ pc \in {"ibm", "tso"}

\* C7: idempotence: when a top-level search returns every executed flag is
\* false, every memory location and load value is 0 and the dependency
\* matrix is the freshly built one; a second run of the analysis on the
\* same program yields the outcome sets of the first run.
C7_Idempotent ==
  /\ Returned =>
        /\ executed = reset_executed
        /\ memvalues = ZeroMem
        /\ loadvalues = ZeroLoads
        /\ po = IF pc = "ibm" THEN FreshIbm ELSE FreshTso
  /\ (Done /\ run = 2) => first_run = <<solutions_ibm, solutions_tso>>

C7_Witness ==
  /\ Done /\ run = 2
  /\ Cardinality(solutions_tso) > 1
  /\ first_run[2] = solutions_tso

(***************************************************************************)
(* C8                                                                      *)
(***************************************************************************)
StLdOutcome == << <<"[]", "x", 5>>, <<"ld", "x", 5>> >>

\* C8: for the single thread [st x 5, ld x] each model's outcome set is
\* exactly { [x]==5; x==5 }; no outcome with the load observing 0 is ever
\* recorded.
C8_StoreThenLoad ==
  program = ProgramStLd =>
     /\ solutions_ibm \subseteq {StLdOutcome}
     /\ solutions_tso \subseteq {StLdOutcome}
     /\ Done => (solutions_ibm = {StLdOutcome} /\ solutions_tso = {StLdOutcome})

C8_Witness == program = ProgramStLd /\ Done /\ StLdOutcome \in solutions_tso

(***************************************************************************)
(* C9                                                                      *)
(***************************************************************************)
NoStores == \A c \in AllInstrs : ~InstrAt(c).store

\* C9: for every program without a store both models produce the same
\* outcome set, it has exactly one element, and in it every location and
\* every load is 0.
C9_NoStoresSingleton ==
  (Done /\ NoStores) =>
     /\ solutions_ibm = solutions_tso
     /\ Cardinality(solutions_ibm) = 1
     /\ \A s \in solutions_ibm : \A k \in 1..Len(s) : s[k][3] = 0

(***************************************************************************)
(* C10                                                                     *)
(***************************************************************************)
ExecutedSet == { c \in AllInstrs : executed[c[1]][c[2]] }

\* the activations that have executed their instruction and not undone it
Busy == { k \in 1..Len(stack) : stack[k].lbl # "loop" }

\* every activation below the top waits in a call made after it executed an
\* instruction, so each activation runs with one more instruction executed
\* than its caller, and at most NumAll calls are nested
NestingBounded ==
  /\ \A k \in 1..Len(stack) - 1 : k \in Busy
  /\ ExecutedSet = { <<stack[k].t, stack[k].i>> : k \in Busy }
  /\ Cardinality(ExecutedSet) = Cardinality(Busy)
  /\ Len(stack) - 1 <= NumAll

\* the place of an activation in its loops: the instruction it is at and
\* how far it is with it
FrameRank(f) ==
  (f.t * (NumAll + 2) + f.i) * 3
  + (IF f.lbl = "loop" THEN 0 ELSE IF f.lbl = "second" THEN 1 ELSE 2)

PhaseRank(p) == IF p = "start" THEN 0 ELSE IF p = "ibm" THEN 1
                ELSE IF p = "tso" THEN 2 ELSE 3

\* stack b is further in the depth-first search than stack a: at the first
\* activation in which they differ b is further in its loops, or b is a
\* with its innermost activations returned
Further(a, b) ==
  \/ /\ Len(b) < Len(a)
     /\ \A j \in 1..Len(b) : FrameRank(b[j]) = FrameRank(a[j])
  \/ \E k \in 1..Len(a) :
        /\ k <= Len(b)
        /\ \A j \in 1..k - 1 : FrameRank(b[j]) = FrameRank(a[j])
        /\ FrameRank(b[k]) > FrameRank(a[k])

\* every step moves main forward or moves the search further
Advances ==
  \/ run' > run
  \/ run' = run /\ PhaseRank(pc') > PhaseRank(pc)
  \/ run' = run /\ pc' = pc /\ Further(stack, stack')

\* C10: the search of each model terminates: every recursive call is made
\* with strictly more instructions executed than its caller, the recursion
\* depth never exceeds the number of instructions, no step is ever repeated
\* (every step advances a bounded well-founded measure) and the program
\* never stops before main has reached its end, so the top-level calls
\* return.
C10_Terminates ==
  /\ [][Advances]_vars
  /\ [](NestingBounded /\ (Done \/ ENABLED Next))

C10_Witness == Len(stack) = NumAll /\ NumAll >= 3 /\ pc = "tso"

(***************************************************************************)
(* C11                                                                     *)
(***************************************************************************)
\* the executed flags as they were when activation k had just executed its
\* instruction: the instructions of the activations 1..k
ExecAt(k) ==
  [t \in Threads |-> [i \in Instrs(t) |->
     \E j \in 1..k : stack[j].t = t /\ stack[j].i = i]]

\* activation k executed a load while the early-forwarding condition held
ForwardsAt(k) == Forwards(ExecAt(k), stack[k].t, stack[k].i)

\* in the TSO search an activation is in its second continuation exactly
\* when it resumes at "reverse"
InSecond(k) == pc = "tso" /\ stack[k].lbl = "reverse"

\* C11 (as stated): under WriteAtomicRelaxed a load executed while the
\* early-forwarding condition holds has two different continuations: in the
\* first its recorded value is the forwarded value of the pending store, in
\* the second its recorded value is the value currently committed in memory
\* for its location.
C11_SecondReadsMemory ==
  (pc = "tso" /\ stack # <<>> /\ Top.lbl # "loop"
   /\ ForwardsAt(Len(stack))) =>
     /\ Top.lbl = "second" =>
          loadvalues[Top.t][Top.i] = get_prevstore(Top.t, Top.i)
     /\ Top.lbl = "reverse" =>
          loadvalues[Top.t][Top.i] = get_memvar(memvalues, program[Top.t][Top.i].mem)

\* C11 (amended): under WriteAtomicRelaxed a load executed while the
\* early-forwarding condition holds has two continuations, and in both of
\* them its recorded value is the forwarded value of the nearest earlier
\* same-thread store to its location; only such loads have a second
\* continuation.
C11_BothContinuationsForward ==
  pc = "tso" =>
     \A k \in Busy :
        /\ ForwardsAt(k) =>
             loadvalues[stack[k].t][stack[k].i] = get_prevstore(stack[k].t, stack[k].i)
        /\ InSecond(k) => ForwardsAt(k)

\* the search is inside the second continuation of a forwarding load whose
\* location holds another value in memory than the forwarded one
C11_Witness ==
  /\ pc = "tso" /\ Len(stack) >= 2
  /\ \E k \in 1..Len(stack) - 1 :
        /\ InSecond(k) /\ ForwardsAt(k)
        /\ get_memvar(memvalues, program[stack[k].t][stack[k].i].mem)
             # get_prevstore(stack[k].t, stack[k].i)

(***************************************************************************)
(* C12                                                                     *)
(***************************************************************************)
\* the earlier same-thread stores to the location of load (t, i) that have
\* not executed
PendingStores(t, i) == { j \in PrevStores(t, i) : ~executed[t][j] }

\* C12: under WriteAtomicRelaxed a load executed while an earlier
\* same-thread store to its location has not yet executed observes the
\* value of that pending store, also when other earlier stores to the
\* location have executed; in every other case it observes the current
\* memory value of its location.
C12_ForwardsFromPending ==
  (pc = "tso" /\ stack # <<>> /\ Top.lbl # "loop"
   /\ ~program[Top.t][Top.i].store) =>
     IF PendingStores(Top.t, Top.i) # {}
       THEN \E j \in PendingStores(Top.t, Top.i) :
               loadvalues[Top.t][Top.i] = program[Top.t][j].value
       ELSE loadvalues[Top.t][Top.i]
              = get_memvar(memvalues, program[Top.t][Top.i].mem)

(***************************************************************************)
(* C13                                                                     *)
(***************************************************************************)
\* the instructions the test of the loops accepts
Eligible ==
  { c \in AllInstrs : /\ ~executed[c[1]][c[2]]
                      /\ ~has_po_dependencies(po, c[1], c[2]) }

\* the StoreAtomic ordering of instruction i before the later d of thread t:
\* a store before later stores and later loads of the same location, a load
\* before everything later
StoreAtomicOrdered(t, i, d) ==
  /\ i < d
  /\ \/ ~program[t][i].store
     \/ program[t][d].store
     \/ program[t][i].mem = program[t][d].mem

\* C13: in every interleaving explored under StoreAtomic, within each
\* thread a store is executed before every later store and before every
\* later load of the same location, and a load before every later
\* instruction; no other same-thread pair is ordered: an unexecuted
\* instruction is eligible as soon as the instructions ordered before it
\* have executed.
C13_StoreAtomicThreadOrder ==
  pc = "ibm" =>
     \A c \in AllInstrs :
        LET t == c[1]
            d == c[2]
            before == { i \in Instrs(t) : StoreAtomicOrdered(t, i, d) }
        IN  /\ executed[t][d] => \A i \in before : executed[t][i]
            /\ ~executed[t][d] =>
                 (c \in Eligible <=> \A i \in before : executed[t][i])

\* a load has executed before an earlier store of its thread to a
\* different location
C13_Witness ==
  /\ pc = "ibm"
  /\ \E t \in Threads : \E i, d \in Instrs(t) :
        /\ i < d
        /\ program[t][i].store /\ ~program[t][d].store
        /\ program[t][i].mem # program[t][d].mem
        /\ executed[t][d] /\ ~executed[t][i]

(***************************************************************************)
(* C14                                                                     *)
(***************************************************************************)
\* the WriteAtomicRelaxed ordering of instruction i before the later d of
\* thread t: a store before later stores, a load before everything later
RelaxedOrdered(t, i, d) ==
  /\ i < d
  /\ \/ ~program[t][i].store
     \/ program[t][d].store

\* C14: in every interleaving explored under WriteAtomicRelaxed, within
\* each thread stores are executed in program order and a load before every
\* later instruction; a load is not ordered after an earlier store of its
\* thread, also not one to the same location: an unexecuted instruction is
\* eligible as soon as the instructions ordered before it have executed.
C14_RelaxedThreadOrder ==
  pc = "tso" =>
     \A c \in AllInstrs :
        LET t == c[1]
            d == c[2]
            before == { i \in Instrs(t) : RelaxedOrdered(t, i, d) }
        IN  /\ executed[t][d] => \A i \in before : executed[t][i]
            /\ ~executed[t][d] =>
                 (c \in Eligible <=> \A i \in before : executed[t][i])

\* a load has executed while an earlier store of its thread to the same
\* location has not
C14_Witness ==
  /\ pc = "tso"
  /\ \E t \in Threads : \E d \in Instrs(t) :
        /\ ~program[t][d].store
        /\ executed[t][d]
        /\ \E i \in PrevStores(t, d) : ~executed[t][i]

(***************************************************************************)
(* C15                                                                     *)
(***************************************************************************)
Searching == pc \in {"ibm", "tso"}

\* the number of candidates executed and not yet undone: the activations
\* below the top one, and the top one unless it is at its loop test
Depth ==
  IF stack = <<>> THEN 0
  ELSE IF Top.lbl = "loop" THEN Len(stack) - 1 ELSE Len(stack)

\* the memory and the load results that executing the candidates of the
\* activations 1..k, in this order, gives from the all-zero state
RECURSIVE PathState(_)
PathState(k) ==
  IF k = 0 THEN [mem |-> ZeroMem, lv |-> ZeroLoads]
  ELSE LET prev == PathState(k - 1)
           t == stack[k].t
           i == stack[k].i
           ins == program[t][i]
       IN  IF ins.store
             THEN [mem |-> update_memvar(prev.mem, ins.mem, ins.value),
                   lv |-> prev.lv]
             ELSE [mem |-> prev.mem,
                   lv |-> update_load(prev.lv, t, i,
                            IF pc = "ibm" THEN get_memvar(prev.mem, ins.mem)
                            ELSE TsoLoadValue(ExecAt(k), prev.mem, t, i))]

\* the matrix the builder of the running model makes, without the edges on
\* the executed instructions
PathPo(k) ==
  [t \in Threads |-> [d \in Instrs(t) |-> [i \in Instrs(t) |->
     /\ ~ExecAt(k)[t][i]
     /\ IF pc = "ibm" THEN IbmEdge(t, d, i) ELSE TsoEdge(t, d, i)]]]

\* C15: save/restore discipline: in either model the memory values, the
\* load result table, the executed flags and the dependency matrix are at
\* every moment determined by the candidates executed and not yet undone,
\* so after the undo step of a candidate they are exactly what they were
\* before it was executed, for every sibling candidate and for the caller;
\* and re-running the builder rule for an eligible instruction alone
\* exactly reverses remove_po for it.
C15_SaveRestore ==
  Searching =>
     /\ memvalues = PathState(Depth).mem
     /\ loadvalues = PathState(Depth).lv
     /\ executed = ExecAt(Depth)
     /\ po = PathPo(Depth)
     /\ \A c \in Eligible :
           po = IF pc = "ibm" THEN add_po_ibm(remove_po(po, c[1], c[2]), c[1], c[2])
                ELSE add_po_tso(remove_po(po, c[1], c[2]), c[1], c[2])

\* a nested activation has just undone a store that had changed memory and
\* a sibling candidate is still to be executed
C15_Witness ==
  /\ Searching /\ Len(stack) >= 2 /\ Top.lbl = "loop" /\ Top.i >= 2
  /\ program[Top.t][Top.i - 1].store
  /\ ~executed[Top.t][Top.i - 1]
  /\ get_memvar(memvalues, program[Top.t][Top.i - 1].mem)
       # program[Top.t][Top.i - 1].value
  /\ Candidates(Top.t, Top.i) # {}

(***************************************************************************)
(* C16                                                                     *)
(***************************************************************************)
EligibleOf(t) == { c \in Eligible : c[1] = t }

\* the lowest-indexed unexecuted store (kind = TRUE) or load (kind = FALSE)
\* of thread t, if there is one
FirstUnexecuted(t, kind) ==
  { i \in Instrs(t) :
      /\ program[t][i].store = kind /\ ~executed[t][i]
      /\ \A j \in 1..i - 1 : program[t][j].store = kind => executed[t][j] }

\* C16 (as stated): at every search state of either model the number of
\* eligible instructions is at most the number of threads: each thread
\* contributes at most one candidate.
C16_OneCandidatePerThread ==
  Searching =>
     /\ Cardinality(Eligible) <= num_threads
     /\ \A t \in Threads : Cardinality(EligibleOf(t)) <= 1

\* C16 (amended): at every search state of either model each thread
\* contributes at most two candidates, at most one store and at most one
\* load, namely its lowest-indexed unexecuted store and its lowest-indexed
\* unexecuted load; the number of eligible instructions is at most twice
\* the number of threads.
C16_TwoCandidatesPerThread ==
  Searching =>
     /\ Cardinality(Eligible) <= 2 * num_threads
     /\ \A t \in Threads :
           /\ Cardinality(EligibleOf(t)) <= 2
           /\ \A c \in EligibleOf(t) :
                 c[2] \in FirstUnexecuted(t, program[t][c[2]].store)

\* a thread has two eligible instructions, a store and a later load
C16_Witness ==
  /\ Searching
  /\ \E t \in Threads : \E c, e \in EligibleOf(t) :
        /\ c[2] < e[2]
        /\ program[t][c[2]].store /\ ~program[t][e[2]].store

(***************************************************************************)
(* C17                                                                     *)
(***************************************************************************)
\* the outcome set of the model whose search is running
Recorded == IF pc = "ibm" THEN solutions_ibm ELSE solutions_tso

\* C17: every search state in which every instruction has executed has its
\* outcome recorded, the initial state of a program without instructions
\* included, so that the outcome set of such a program is a singleton when
\* its search has returned.
C17_RecordedWhenAllExecuted ==
  /\ (Searching /\ all_executed(executed)) =>
        OutcomeString(memvalues, loadvalues) \in Recorded
  /\ (Done /\ NumAll = 0) =>
        /\ Cardinality(solutions_ibm) = 1
        /\ Cardinality(solutions_tso) = 1

(***************************************************************************)
(* C18                                                                     *)
(***************************************************************************)
\* the edge the builder of the running model puts at po[t][d][i]
BuilderEdge(t, d, i) ==
  IF pc = "ibm" THEN IbmEdge(t, d, i) ELSE TsoEdge(t, d, i)

\* the lowest-indexed unexecuted instruction of thread t, if there is one
LowestUnexecuted(t) ==
  { i \in Instrs(t) : ~executed[t][i] /\ \A j \in 1..i - 1 : executed[t][j] }

\* C18: no dead ends: at every search state of either model, in each
\* thread with unexecuted instructions the lowest-indexed unexecuted one
\* has no pending dependency, so that some instruction is eligible whenever
\* some instruction is unexecuted.
C18_NoDeadEnds ==
  Searching =>
     /\ \A t \in Threads : \A i \in LowestUnexecuted(t) :
           ~has_po_dependencies(po, t, i)
     /\ ~all_executed(executed) => Eligible # {}

\* the lowest unexecuted instruction of a thread is one the builder made
\* wait for the instruction before it, which has executed
C18_Witness ==
  /\ Searching
  /\ \E t \in Threads : \E i \in LowestUnexecuted(t) :
        i >= 2 /\ BuilderEdge(t, i, i - 1)

(***************************************************************************)
(* C19                                                                     *)
(***************************************************************************)
\* C19: at every search state of either model, for every thread t and
\* instruction i: if i is executed no instruction of t has a dependency
\* edge on i, and if i is not executed the edges on i are exactly those the
\* builder rule of the model creates for i.
C19_MatrixColumns ==
  Searching =>
     \A t \in Threads : \A i \in Instrs(t) :
        IF executed[t][i]
          THEN \A d \in Instrs(t) : ~po[t][d][i]
          ELSE \A d \in Instrs(t) : po[t][d][i] = BuilderEdge(t, d, i)

\* a thread has an executed instruction whose edge the builder had made and
\* an unexecuted one whose edge is in the matrix
C19_Witness ==
  /\ Searching
  /\ \E t \in Threads : \E i, j, d \in Instrs(t) :
        /\ executed[t][i] /\ BuilderEdge(t, j, i)
        /\ ~executed[t][j] /\ po[t][d][j]

(***************************************************************************)
(* C20                                                                     *)
(***************************************************************************)
\* C20: at every search state of either model every load that is not
\* executed has the value 0 in the load result table, so the undo step,
\* which writes 0, restores the value the load had before it was executed.
C20_UnexecutedLoadsZero ==
  Searching =>
     \A c \in AllInstrs :
        (~InstrAt(c).store /\ ~executed[c[1]][c[2]]) => loadvalues[c[1]][c[2]] = 0

\* a load that had observed a non-zero memory value has just been undone
C20_Witness ==
  /\ pc = "ibm" /\ stack # <<>> /\ Top.lbl = "loop" /\ Top.i >= 2
  /\ ~program[Top.t][Top.i - 1].store
  /\ ~executed[Top.t][Top.i - 1]
  /\ get_memvar(memvalues, program[Top.t][Top.i - 1].mem) # 0

====
